---- MODULE Spec2Model ----
(***************************************************************************)
(* The queue controller of src/index.tsx (component App): the collection   *)
(* of work items, the bounded dispatch of extractions, the pause after     *)
(* PAUSE_AFTER_REQUESTS successful extractions and its countdown.          *)
(*                                                                         *)
(* React is modelled as follows.  The state variables hold the state with  *)
(* every update that was queued applied, in the order of the calls (the    *)
(* updates of the program are constants or functions of the previous       *)
(* state).  `rendered` holds the values of the last render: the values the *)
(* JSX (disabled flags, delete buttons) and the closures of the handlers   *)
(* and effects read.  A handler (file intake, a click, the continuation of *)
(* an extraction, the countdown timer) runs at any moment, also while a    *)
(* render or the effects of a commit are waiting.  Render commits the      *)
(* queued updates and marks which dependencies changed; RunEffects runs    *)
(* the effects whose dependencies changed, in declaration order, on the    *)
(* rendered values.  The effects of a commit run before the next render.   *)
(***************************************************************************)
EXTENDS Integers, Sequences, FiniteSets, TLC

\* ---- program constants (src/index.tsx:56-58) ----
MAX_CONCURRENT_UPLOADS == 2
PAUSE_AFTER_REQUESTS == 8
PAUSE_DURATION_SECONDS == 70

\* ---- bounds of the environment ----
\* files handed to the application over the session
MaxItems == 3
\* the files whose rows the user deletes are among the first MaxDeletableId
MaxDeletableId == 1
\* the files whose extraction does not yield a full record are among the
\* first MaxFaultyId
MaxFaultyId == 1
\* Earlier in the session extractions may have succeeded whose rows the user
\* has deleted since (requestCountRef counts them still): either none, or so
\* many that MoreToPause more start a pause
MoreToPause == 2
PriorRequests == {0, PAUSE_AFTER_REQUESTS - MoreToPause}

\* the ids that can be handed out: those of the files, or of the nine images
\* of the example of SpecNine
Ids == 1..(IF MaxItems > PAUSE_AFTER_REQUESTS + 1 THEN MaxItems ELSE PAUSE_AFTER_REQUESTS + 1)

VARIABLES
    results,         \* useState<ResultItem[]>: the collection, in order
    isProcessing,    \* useState<boolean>
    isPaused,        \* useState(false)
    pauseCountdown,  \* useState(0)
    rendered,        \* these four as the last render saw them
    resultsSet,      \* setResults was called since the last render
    requestCount,    \* requestCountRef.current
    pending,         \* id -> extractTextFromImage calls that have not returned
    started,         \* id -> extractTextFromImage calls made so far
    timerArmed,      \* the setTimeout of the countdown effect is waiting
    dirtyResults,    \* the last commit changed `results`, the effects have not run
    dirtyPaused,     \* the last commit changed `isPaused`, the effects have not run
    dirtyCountdown,  \* the last commit changed `pauseCountdown`, the effects have not run
    nextId,          \* the ids handed out so far are 1..nextId-1 (randomUUID)
    output,          \* what the last handler showed or wrote: alert(), XLSX.writeFile
    pauseTicks       \* (history) runs of the timer callback since the pause began

vars == <<results, isProcessing, isPaused, pauseCountdown, rendered, resultsSet,
          requestCount, pending, started, timerArmed, dirtyResults, dirtyPaused,
          dirtyCountdown, nextId, output, pauseTicks>>

\* ---- values ----
\* item.data when the property is absent
NoData == [kind |-> "undefined", productName |-> "undefined",
           refNumber |-> "undefined", lotNumber |-> "undefined",
           expirationDate |-> "undefined"]
\* the JavaScript value null
NullValue == [kind |-> "null", productName |-> "undefined",
              refNumber |-> "undefined", lotNumber |-> "undefined",
              expirationDate |-> "undefined"]
\* an object with the four fields of ExtractedInfo, all found
FullRecord == [kind |-> "object", productName |-> "Pipette",
               refNumber |-> "REF-1", lotNumber |-> "LOT-1",
               expirationDate |-> "2027-01-31"]
\* an object with the four fields of ExtractedInfo, none found
NullsRecord == [kind |-> "object", productName |-> "null",
                refNumber |-> "null", lotNumber |-> "null",
                expirationDate |-> "null"]

\* item.errorMessage when the property is absent
NoMessage == "undefined"
UnknownErrorMessage == "Ocorreu um erro desconhecido."

\* what `response.text` can be
TextFull == "{productName:Pipette,refNumber:REF-1,lotNumber:LOT-1,expirationDate:2027-01-31}"
TextNulls == "{productName:null,refNumber:null,lotNumber:null,expirationDate:null}"
TextNull == "null"
TextMalformed == "Sorry, I cannot read this image"
ResponseTexts == {TextFull, TextNulls, TextNull, TextMalformed}

\* what an awaited call can throw: an Error whose message is empty, a value
\* that is not an Error (the ProgressEvent that fileToBase64 rejects with);
\* an Error with a message is the SyntaxError of JSON.parse
ErrorEmptyMessage == [isError |-> TRUE, message |-> ""]
NotAnError == [isError |-> FALSE, message |-> "undefined"]
SyntaxError == [isError |-> TRUE, message |-> "Unexpected token S in JSON at position 0"]
ThrownValues == {ErrorEmptyMessage, NotAnError}

\* JSON.parse: the value, or the SyntaxError it throws
JSONParse(text) ==
    CASE text = TextFull -> [threw |-> FALSE, value |-> FullRecord, error |-> NotAnError]
      [] text = TextNulls -> [threw |-> FALSE, value |-> NullsRecord, error |-> NotAnError]
      [] text = TextNull -> [threw |-> FALSE, value |-> NullValue, error |-> NotAnError]
      [] OTHER -> [threw |-> TRUE, value |-> NoData, error |-> SyntaxError]

\* JavaScript truthiness of a data value (`item.data &&`, `&& r.data`)
Truthy(d) == d.kind \notin {"undefined", "null"}

\* ---- the collection ----
\* file.name of the file that got the id `id`
FileName(id) == "image-" \o ToString(id) \o ".png"

NewItem(id) == [id |-> id, fileName |-> FileName(id), status |-> "queued",
                data |-> NoData, errorMessage |-> NoMessage]

IdsOf(rs) == {rs[k].id : k \in DOMAIN rs}

IsQueued(r) == r.status = "queued"
IsLoading(r) == r.status = "loading"

\* results.filter(r => r.status === 'loading').length
CurrentlyLoading(rs) == Len(SelectSeq(rs, IsLoading))
\* results.filter(r => r.status === 'queued')
QueuedItems(rs) == SelectSeq(rs, IsQueued)

\* Array.prototype.slice(0, n) for n >= 0
SliceFromStart(s, n) == SubSeq(s, 1, IF n < Len(s) THEN n ELSE Len(s))

\* if (currentlyLoading < MAX_CONCURRENT_UPLOADS && queuedItems.length > 0)
ShouldDispatch(rs) ==
    CurrentlyLoading(rs) < MAX_CONCURRENT_UPLOADS /\ Len(QueuedItems(rs)) > 0

\* (mutant) slice(0, MAX_CONCURRENT_UPLOADS), whatever is loading
ItemsToProcess_IgnoresLoading(rs) == SliceFromStart(QueuedItems(rs), MAX_CONCURRENT_UPLOADS)
\* (mutant) slice(-(MAX_CONCURRENT_UPLOADS - currentlyLoading)): the newest first
ItemsToProcess_FromEnd(rs) ==
    SubSeq(QueuedItems(rs),
           IF MAX_CONCURRENT_UPLOADS - CurrentlyLoading(rs) < Len(QueuedItems(rs))
              THEN Len(QueuedItems(rs)) - (MAX_CONCURRENT_UPLOADS - CurrentlyLoading(rs)) + 1
              ELSE 1,
           Len(QueuedItems(rs)))
\* (mutant) slice(0, 1): one item for each run of the effect
ItemsToProcess_OneAtATime(rs) == SliceFromStart(QueuedItems(rs), 1)
\* queuedItems.slice(0, MAX_CONCURRENT_UPLOADS - currentlyLoading)
ItemsToProcess(rs) ==
    SliceFromStart(QueuedItems(rs), MAX_CONCURRENT_UPLOADS - CurrentlyLoading(rs))

\* (mutant) prev.map(r => ({...r, status: 'loading'})): every row, not the dispatched ones
MarkLoading_EveryRow(prev, items) ==
    IF prev = <<>> THEN <<>>
    ELSE [k \in 1..Len(prev) |-> [prev[k] EXCEPT !.status = "loading"]]
\* (mutant) the effect without its update of the dispatched rows
MarkLoading_Forgets(prev, items) == prev
\* prev.map(r => itemsToProcess.some(item => item.id === r.id) ? {...r, status: 'loading'} : r)
MarkLoading(prev, items) ==
    IF prev = <<>> THEN <<>>
    ELSE [k \in 1..Len(prev) |->
            IF prev[k].id \in IdsOf(items)
               THEN [prev[k] EXCEPT !.status = "loading"]
               ELSE prev[k]]

\* (mutant) an updater that inserts the row when no row has the id
MarkDone_Upsert(prev, id, extractedData) ==
    IF id \in IdsOf(prev)
       THEN [k \in 1..Len(prev) |->
                IF prev[k].id = id
                   THEN [prev[k] EXCEPT !.status = "done", !.data = extractedData]
                   ELSE prev[k]]
       ELSE Append(prev, [id |-> id, fileName |-> FileName(id), status |-> "done",
                          data |-> extractedData, errorMessage |-> NoMessage])

\* prev.map(r => r.id === id ? { ...r, status: 'done', data: extractedData } : r)
MarkDone(prev, id, extractedData) ==
    IF prev = <<>> THEN <<>>
    ELSE [k \in 1..Len(prev) |->
            IF prev[k].id = id
               THEN [prev[k] EXCEPT !.status = "done", !.data = extractedData]
               ELSE prev[k]]

\* (mutant) the updater without the test of the id: every loading row fails
MarkError_EveryLoading(prev, id, errorMessage) ==
    IF prev = <<>> THEN <<>>
    ELSE [k \in 1..Len(prev) |->
            IF prev[k].status = "loading"
               THEN [prev[k] EXCEPT !.status = "error", !.errorMessage = errorMessage]
               ELSE prev[k]]

\* prev.map(r => r.id === itemToProcess.id ? { ...r, status: 'error', errorMessage } : r)
MarkError(prev, id, errorMessage) ==
    IF prev = <<>> THEN <<>>
    ELSE [k \in 1..Len(prev) |->
            IF prev[k].id = id
               THEN [prev[k] EXCEPT !.status = "error", !.errorMessage = errorMessage]
               ELSE prev[k]]

\* prev.filter(item => item.id !== idToDelete)
RemoveItem(prev, idToDelete) ==
    LET keep(r) == r.id # idToDelete IN SelectSeq(prev, keep)

\* r.status === 'done' && r.data
IsExportable(r) == r.status = "done" /\ Truthy(r.data)
\* results.filter(r => r.status === 'done' && r.data): the rows that are exported
DataToExport(rs) == SelectSeq(rs, IsExportable)

\* results.some(r => r.status === 'loading' || r.status === 'queued')
IsStillProcessing(rs) ==
    \E k \in DOMAIN rs : rs[k].status \in {"loading", "queued"}

\* (error instanceof Error) ? error.message : 'Ocorreu um erro desconhecido.'
ErrorMessageOf(error) == IF error.isError THEN error.message ELSE UnknownErrorMessage

\* (mutant) the test of line 105 without its `% PAUSE_AFTER_REQUESTS === 0`
ShouldPause_EveryRequest(currentCount) == currentCount > 0
\* currentCount > 0 && currentCount % PAUSE_AFTER_REQUESTS === 0
ShouldPause(currentCount) ==
    currentCount > 0 /\ currentCount % PAUSE_AFTER_REQUESTS = 0

\* the row of an item shows a delete button
DeleteOffered(r) == r.status = "error" \/ (r.status = "done" /\ Truthy(r.data))

\* ---- what a handler shows or writes ----
NoOutput == [kind |-> "none", text |-> "", sheet |-> "", rows |-> <<>>]
\* alert("Nenhum dado disponível para exportar.")
NothingToExportNotice ==
    [kind |-> "alert", text |-> "Nenhum dado disponível para exportar.",
     sheet |-> "", rows |-> <<>>]
\* XLSX.writeFile(workbook, "DadosSuprimentosLab.xlsx") with the one worksheet
ExportFile(rows) ==
    [kind |-> "file", text |-> "DadosSuprimentosLab.xlsx",
     sheet |-> "Suprimentos de Laboratório", rows |-> rows]

\* the effects of the last commit have not run yet
EffectsWaiting == dirtyResults \/ dirtyPaused \/ dirtyCountdown

\* an update is queued that the last render has not seen
NeedsRender ==
    \/ resultsSet
    \/ isProcessing # rendered.isProcessing
    \/ isPaused # rendered.isPaused
    \/ pauseCountdown # rendered.pauseCountdown

\* nothing is waiting: no render and no effect
Settled == ~EffectsWaiting /\ ~NeedsRender

\* what a render of the present state sees
Snapshot ==
    [results |-> results, isProcessing |-> isProcessing,
     isPaused |-> isPaused, pauseCountdown |-> pauseCountdown]

Init ==
    /\ results = <<>>
    /\ isProcessing = FALSE
    /\ isPaused = FALSE
    /\ pauseCountdown = 0
    /\ rendered = Snapshot
    /\ resultsSet = FALSE
    /\ requestCount \in PriorRequests
    /\ pending = [i \in Ids |-> 0]
    /\ started = [i \in Ids |-> 0]
    /\ timerArmed = FALSE
    /\ dirtyResults = FALSE
    /\ dirtyPaused = FALSE
    /\ dirtyCountdown = FALSE
    /\ nextId = 1
    /\ output = NoOutput
    /\ pauseTicks = 0

\* ---- file intake ----
\* handleFileSelect(files) with files.length = n
HandleFileSelect(n) ==
    /\ n >= 1
    /\ isProcessing' = TRUE
    /\ results' = results \o [k \in 1..n |-> NewItem(nextId + k - 1)]
    /\ resultsSet' = TRUE
    /\ nextId' = nextId + n
    /\ output' = NoOutput
    /\ UNCHANGED <<isPaused, pauseCountdown, rendered, requestCount, pending, started,
                   timerArmed, dirtyResults, dirtyPaused, dirtyCountdown, pauseTicks>>

\* <input type="file" onChange=... disabled={isProcessing || isPaused}>
FileInputChange ==
    /\ ~(rendered.isProcessing \/ rendered.isPaused)
    /\ \E n \in 1..(MaxItems - nextId + 1) : HandleFileSelect(n)

\* handleDrop: handleDragEvents(e, false), then handleFileSelect(files)
HandleDrop ==
    \E n \in 1..(MaxItems - nextId + 1) : HandleFileSelect(n)

\* ---- deletion ----
HandleDeleteItem(idToDelete) ==
    /\ results' = RemoveItem(results, idToDelete)
    /\ resultsSet' = TRUE
    /\ output' = NoOutput
    /\ UNCHANGED <<isProcessing, isPaused, pauseCountdown, rendered, requestCount,
                   pending, started, timerArmed, dirtyResults, dirtyPaused,
                   dirtyCountdown, nextId, pauseTicks>>

\* a click on the delete button of a rendered row that shows one
ClickDelete ==
    \E k \in DOMAIN rendered.results :
        /\ DeleteOffered(rendered.results[k])
        /\ rendered.results[k].id <= MaxDeletableId
        /\ HandleDeleteItem(rendered.results[k].id)

\* ---- extractTextFromImage, from the last await on ----
\* the try block ran to its end: the response text parsed
ExtractionSucceeds(id, text) ==
    /\ pending[id] > 0
    /\ ~JSONParse(text).threw
    /\ results' = MarkDone(results, id, JSONParse(text).value)
    /\ resultsSet' = TRUE
    /\ requestCount' = requestCount + 1
    /\ IF ShouldPause(requestCount + 1)
          THEN /\ isPaused' = TRUE
               /\ pauseCountdown' = PAUSE_DURATION_SECONDS
          ELSE UNCHANGED <<isPaused, pauseCountdown>>
    /\ pauseTicks' = IF ShouldPause(requestCount + 1) /\ ~isPaused THEN 0 ELSE pauseTicks
    /\ pending' = [pending EXCEPT ![id] = @ - 1]
    /\ output' = NoOutput
    /\ UNCHANGED <<isProcessing, rendered, started, timerArmed, dirtyResults,
                   dirtyPaused, dirtyCountdown, nextId>>

\* (mutant) the catch block of a variant that counts failed requests too
ExtractionFails_Counted(id, error) ==
    /\ pending[id] > 0
    /\ results' = MarkError(results, id, ErrorMessageOf(error))
    /\ resultsSet' = TRUE
    /\ requestCount' = requestCount + 1
    /\ IF ShouldPause(requestCount + 1)
          THEN /\ isPaused' = TRUE
               /\ pauseCountdown' = PAUSE_DURATION_SECONDS
          ELSE UNCHANGED <<isPaused, pauseCountdown>>
    /\ pauseTicks' = IF ShouldPause(requestCount + 1) /\ ~isPaused THEN 0 ELSE pauseTicks
    /\ pending' = [pending EXCEPT ![id] = @ - 1]
    /\ output' = NoOutput
    /\ UNCHANGED <<isProcessing, rendered, started, timerArmed, dirtyResults,
                   dirtyPaused, dirtyCountdown, nextId>>

\* the catch block ran: `error` was thrown by an await or by JSON.parse
ExtractionFails(id, error) ==
    /\ pending[id] > 0
    /\ results' = MarkError(results, id, ErrorMessageOf(error))
    /\ resultsSet' = TRUE
    /\ pending' = [pending EXCEPT ![id] = @ - 1]
    /\ output' = NoOutput
    /\ UNCHANGED <<isProcessing, isPaused, pauseCountdown, rendered, requestCount,
                   started, timerArmed, dirtyResults, dirtyPaused, dirtyCountdown,
                   nextId, pauseTicks>>

\* the service answered with `text`
ResponseArrives ==
    \E id \in Ids : \E text \in ResponseTexts :
        /\ text = TextFull \/ id <= MaxFaultyId
        /\ IF JSONParse(text).threw
              THEN ExtractionFails(id, JSONParse(text).error)
              ELSE ExtractionSucceeds(id, text)

\* the file read or the service call threw
CallThrows ==
    \E id \in Ids : \E error \in ThrownValues :
        /\ id <= MaxFaultyId
        /\ ExtractionFails(id, error)

\* ---- export ----
\* .map(r => ({ 'Nome do Arquivo': r.fileName, ... })): the columns in key order
ExportRow(r) ==
    << <<"Nome do Arquivo", r.fileName>>,
       <<"Nome do Produto", r.data.productName>>,
       <<"Referência (REF)", r.data.refNumber>>,
       <<"Número do Lote (LOT)", r.data.lotNumber>>,
       <<"Data de Validade", r.data.expirationDate>> >>

\* dataToExport: the filtered rows, mapped
ExportRows(rs) ==
    IF DataToExport(rs) = <<>> THEN <<>>
    ELSE [k \in 1..Len(DataToExport(rs)) |-> ExportRow(DataToExport(rs)[k])]

\* (mutant) handleExportToExcel without `if (dataToExport.length === 0)`
HandleExportToExcel_NoCheck ==
    /\ output' = ExportFile(ExportRows(rendered.results))
    /\ UNCHANGED <<results, isProcessing, isPaused, pauseCountdown, rendered,
                   resultsSet, requestCount, pending, started, timerArmed,
                   dirtyResults, dirtyPaused, dirtyCountdown, nextId, pauseTicks>>

\* handleExportToExcel: `results` is the array of the render that made the handler
HandleExportToExcel ==
    /\ output' = IF Len(ExportRows(rendered.results)) = 0
                    THEN NothingToExportNotice
                    ELSE ExportFile(ExportRows(rendered.results))
    /\ UNCHANGED <<results, isProcessing, isPaused, pauseCountdown, rendered,
                   resultsSet, requestCount, pending, started, timerArmed,
                   dirtyResults, dirtyPaused, dirtyCountdown, nextId, pauseTicks>>

\* disabled={results.filter(r => r.status === 'done').length === 0 || isProcessing || isPaused}
ExportDisabled ==
    \/ \A k \in DOMAIN rendered.results : rendered.results[k].status # "done"
    \/ rendered.isProcessing
    \/ rendered.isPaused

\* a click on the export button
ClickExport ==
    /\ ~ExportDisabled
    /\ HandleExportToExcel

\* ---- the countdown timer ----
\* setTimeout(() => setPauseCountdown(prev => prev - 1), 1000) fires
PauseTick ==
    /\ timerArmed
    /\ pauseCountdown' = pauseCountdown - 1
    /\ timerArmed' = FALSE
    /\ pauseTicks' = pauseTicks + 1
    /\ output' = NoOutput
    /\ UNCHANGED <<results, isProcessing, isPaused, rendered, resultsSet,
                   requestCount, pending, started, dirtyResults, dirtyPaused,
                   dirtyCountdown, nextId>>

\* ---- the render ----
\* React renders App with the queued updates applied and commits; the effects
\* whose dependencies differ from those of the render before are left to run
Render ==
    /\ ~EffectsWaiting
    /\ NeedsRender
    /\ rendered' = Snapshot
    /\ resultsSet' = FALSE
    /\ dirtyResults' = resultsSet
    /\ dirtyPaused' = (isPaused # rendered.isPaused)
    /\ dirtyCountdown' = (pauseCountdown # rendered.pauseCountdown)
    /\ output' = NoOutput
    /\ UNCHANGED <<results, isProcessing, isPaused, pauseCountdown, requestCount,
                   pending, started, timerArmed, nextId, pauseTicks>>

\* ---- the effects ----
\* (mutant) the early return without `if (isPaused) setIsPaused(false)`
PauseEffectUnpauses_Forgets(paused, countdown) == FALSE
\* if (!isPaused || pauseCountdown <= 0) { if (isPaused) setIsPaused(false); return; }
PauseEffectUnpauses(paused, countdown) ==
    (~paused \/ countdown <= 0) /\ paused
\* otherwise the effect sets the timer (its cleanup clears the one before)
PauseEffectArmsTimer(paused, countdown) ==
    ~(~paused \/ countdown <= 0)

\* if (isPaused) return; ... if (currentlyLoading < MAX && queuedItems.length > 0)
DispatchEffectDispatches(paused, rs) ==
    ~paused /\ ShouldDispatch(rs)
\* (mutant) the dispatch effect without its `setIsProcessing(false)`
DispatchEffectClears_Never(paused, rs, processing) == FALSE
\* if (isPaused) return; ... if (!isStillProcessing && isProcessing) setIsProcessing(false)
DispatchEffectClears(paused, rs, processing) ==
    ~paused /\ ~IsStillProcessing(rs) /\ processing

\* itemsToProcess.forEach(extractTextFromImage): one call per item
StartExtractions(count, items) ==
    [i \in Ids |-> count[i] + Cardinality({k \in DOMAIN items : items[k].id = i})]

\* The effects of the last commit: the countdown effect (deps isPaused,
\* pauseCountdown), then the dispatch effect (deps results, isPaused), both on
\* the rendered values; their updates are queued behind those already there.
RunEffects ==
    /\ EffectsWaiting
    /\ LET runPause == dirtyPaused \/ dirtyCountdown
           runDispatch == dirtyResults \/ dirtyPaused
           unpause == runPause
                      /\ PauseEffectUnpauses(rendered.isPaused, rendered.pauseCountdown)
           dispatch == runDispatch
                       /\ DispatchEffectDispatches(rendered.isPaused, rendered.results)
           clear == runDispatch
                    /\ DispatchEffectClears(rendered.isPaused, rendered.results,
                                            rendered.isProcessing)
           items == IF dispatch THEN ItemsToProcess(rendered.results) ELSE <<>>
       IN /\ isPaused' = IF unpause THEN FALSE ELSE isPaused
          /\ timerArmed' = IF runPause
                              THEN PauseEffectArmsTimer(rendered.isPaused,
                                                        rendered.pauseCountdown)
                              ELSE timerArmed
          /\ results' = IF dispatch THEN MarkLoading(results, items) ELSE results
          /\ resultsSet' = (resultsSet \/ dispatch)
          /\ pending' = StartExtractions(pending, items)
          /\ started' = StartExtractions(started, items)
          /\ isProcessing' = IF clear THEN FALSE ELSE isProcessing
    /\ dirtyResults' = FALSE
    /\ dirtyPaused' = FALSE
    /\ dirtyCountdown' = FALSE
    /\ output' = NoOutput
    /\ UNCHANGED <<pauseCountdown, rendered, requestCount, nextId, pauseTicks>>

Next ==
    \/ FileInputChange
    \/ HandleDrop
    \/ ClickDelete
    \/ ClickExport
    \/ ResponseArrives
    \/ CallThrows
    \/ PauseTick
    \/ Render
    \/ RunEffects

Spec == Init /\ [][Next]_vars

\* ---- type invariant ----
TypeOK ==
    /\ \A k \in DOMAIN results :
          /\ results[k].id \in 1..(nextId - 1)
          /\ results[k].status \in {"queued", "loading", "done", "error"}
    /\ isProcessing \in BOOLEAN /\ isPaused \in BOOLEAN
    /\ pauseCountdown \in Int /\ requestCount \in Nat
    /\ nextId - 1 \in Ids \cup {0}
    /\ pauseTicks \in Nat
    /\ resultsSet \in BOOLEAN
    /\ \A k \in DOMAIN rendered.results :
          rendered.results[k].status \in {"queued", "loading", "done", "error"}

\* ---- claims ----
\* C1: in every reachable state at most MAX_CONCURRENT_UPLOADS items of the
\* collection have status 'loading', in the state and in what is rendered.
C1_LoadingBounded ==
    /\ CurrentlyLoading(results) <= MAX_CONCURRENT_UPLOADS
    /\ CurrentlyLoading(rendered.results) <= MAX_CONCURRENT_UPLOADS

\* the limit is reached again after a failure: the slot of the failed item
\* was given to the item that waited
C1_Witness ==
    /\ CurrentlyLoading(results) = MAX_CONCURRENT_UPLOADS
    /\ \E k \in DOMAIN results : results[k].status = "error"
    /\ Len(QueuedItems(results)) = 0
    /\ Settled

\* some item that is 'loading' after the step was in the collection before
\* it with status 'queued': the step dispatched it
DispatchedInStep ==
    \E k \in DOMAIN results' : \E j \in DOMAIN results :
        /\ results'[k].id = results[j].id
        /\ results[j].status = "queued"
        /\ results'[k].status = "loading"

\* C3 as stated: the pause is entered exactly by the step that brings the
\* count of completed (successful, see C7) extractions to a multiple of
\* PAUSE_AFTER_REQUESTS, that is to PAUSE_AFTER_REQUESTS since the pause
\* before began; that step and every step taken from then on, while the
\* countdown is positive, move no item from 'queued' to 'loading'.
C3_Step ==
    /\ (~isPaused /\ isPaused') =>
          /\ requestCount' = requestCount + 1
          /\ requestCount' % PAUSE_AFTER_REQUESTS = 0
    /\ (requestCount' # requestCount /\ requestCount' % PAUSE_AFTER_REQUESTS = 0) =>
          /\ isPaused'
          /\ pauseCountdown' = PAUSE_DURATION_SECONDS
    /\ ((~isPaused /\ isPaused') \/ (isPaused /\ pauseCountdown > 0)) =>
          ~DispatchedInStep
C3_PauseAfterN == [][C3_Step]_vars

\* ---- the example of nine images uploaded at once, every extraction succeeding ----
NineImages == PAUSE_AFTER_REQUESTS + 1

UploadNine ==
    /\ nextId = 1
    /\ ~(rendered.isProcessing \/ rendered.isPaused)
    /\ HandleFileSelect(NineImages)

NineSucceeds ==
    \E id \in Ids : ExtractionSucceeds(id, TextFull)

NextNine ==
    \/ UploadNine
    \/ NineSucceeds
    \/ PauseTick
    \/ Render
    \/ RunEffects

\* the application has just been loaded
InitNine == Init /\ requestCount = 0

SpecNine == InitNine /\ [][NextNine]_vars

\* extractTextFromImage calls made so far
StartedCount == Cardinality({i \in Ids : started[i] > 0})

\* C4 as stated: the 9th item is dispatched only after the 8th completion
\* has started the pause.
C4_Original ==
    started[NineImages] > 0 => requestCount >= PAUSE_AFTER_REQUESTS

\* C4 amended: items 1 and 2 are dispatched by the first run of the effects;
\* every item is dispatched once, and never more items than there are
\* completions plus MAX_CONCURRENT_UPLOADS; the 9th item is dispatched not
\* before the 7th completion, and by the effects that follow it: whenever the
\* render and the effects that follow the 7th completion have run before the
\* 8th is handled, the 9th item is dispatched before the pause; no pause
\* begins before the 8th completion, and a pause begins with the countdown at
\* PAUSE_DURATION_SECONDS.
C4_NinthBeforePause ==
    /\ (Settled /\ nextId > 1) =>
          /\ started[1] = 1 /\ started[2] = 1
          /\ requestCount = PAUSE_AFTER_REQUESTS - 1 => started[NineImages] = 1
    /\ \A i \in Ids : started[i] <= 1
    /\ StartedCount <= requestCount + MAX_CONCURRENT_UPLOADS
    /\ started[NineImages] > 0 => requestCount >= PAUSE_AFTER_REQUESTS - 1
    /\ isPaused => requestCount >= PAUSE_AFTER_REQUESTS
    /\ (isPaused /\ ~rendered.isPaused) => pauseCountdown = PAUSE_DURATION_SECONDS

\* the 8th completion has just started the pause and the 9th item is loading
C4_Witness ==
    /\ requestCount = PAUSE_AFTER_REQUESTS
    /\ isPaused /\ pauseCountdown = PAUSE_DURATION_SECONDS
    /\ ~rendered.isPaused
    /\ Len(results) = NineImages
    /\ results[NineImages].status = "loading"
    /\ rendered.results[NineImages].status = "loading"
    /\ \A k \in 1..PAUSE_AFTER_REQUESTS : results[k].status = "done"

\* ---- fairness: what the scheduling guarantees and what C2 assumes ----
\* React runs the effects of every commit, the timer that was set fires, and
\* the service answers while an extraction is outstanding
FairSpec ==
    /\ Spec
    /\ WF_vars(Render)
    /\ WF_vars(RunEffects)
    /\ WF_vars(PauseTick)
    /\ WF_vars(ResponseArrives)

\* every item of the collection is 'done' or 'error'
AllFinished ==
    \A k \in DOMAIN results : results[k].status \in {"done", "error"}

\* C2: with finitely many files uploaded, from some moment on every item that
\* is (still) in the collection has status 'done' or 'error'; in particular
\* an item that is in the collection at any moment is later finished or
\* deleted, also when it waited in the queue during a pause.
C2_EveryItemFinishes == <>[]AllFinished

\* a pause is running while an item waits in the queue, after a deletion
C2_Witness ==
    /\ isPaused /\ pauseCountdown > 0 /\ Settled
    /\ Len(QueuedItems(results)) > 0
    /\ Len(results) < nextId - 1

\* C5: entering a pause sets the countdown to PAUSE_DURATION_SECONDS; the
\* countdown changes otherwise only by one tick down, while paused; it stays
\* within 0..PAUSE_DURATION_SECONDS; isPaused turns false only with the
\* countdown at zero; and a pause that has run out with an item waiting leads
\* to a state that is not paused in which the free slots have been filled
\* from the queue.
C5_Step ==
    /\ (~isPaused /\ isPaused') => pauseCountdown' = PAUSE_DURATION_SECONDS
    /\ (pauseCountdown' # pauseCountdown) =>
          \/ ~isPaused /\ isPaused' /\ pauseCountdown' = PAUSE_DURATION_SECONDS
          \/ isPaused /\ isPaused' /\ pauseCountdown' = pauseCountdown - 1
    /\ (isPaused /\ ~isPaused') => pauseCountdown = 0 /\ pauseCountdown' = 0
C5_Countdown ==
    /\ [](pauseCountdown \in 0..PAUSE_DURATION_SECONDS)
    /\ [][C5_Step]_vars
    /\ (isPaused /\ pauseCountdown = 0 /\ Len(QueuedItems(results)) > 0) ~>
          /\ ~isPaused
          /\ \/ CurrentlyLoading(results) = MAX_CONCURRENT_UPLOADS
             \/ Len(QueuedItems(results)) = 0
          /\ CurrentlyLoading(results) > 0

\* the countdown has reached zero with an item waiting in the queue
C5_Witness ==
    /\ isPaused /\ pauseCountdown = 0
    /\ Len(QueuedItems(results)) > 0

\* the row at position k has another status than `status` before the step and
\* the row of the same id has status `status` after it
Becomes(k, status) ==
    /\ results[k].status # status
    /\ \E j \in DOMAIN results' :
          results'[j].id = results[k].id /\ results'[j].status = status

\* C6: a step in which an item becomes 'error' changes that row only: it was
\* 'loading', keeps its place, id and data and gets an error message; every
\* other row is unchanged; the collection is left to be rendered, so that the
\* dispatch effect runs; no call stays
\* outstanding for the failed item and none is made again; and with a failed
\* row in the collection the free slots are still filled from the queue.
C6_Step ==
    \A k \in DOMAIN results :
        Becomes(k, "error") =>
            /\ Len(results') = Len(results)
            /\ \A j \in DOMAIN results : j # k => results'[j] = results[j]
            /\ results[k].status = "loading"
            /\ results'[k] = [results[k] EXCEPT !.status = "error",
                                                !.errorMessage = results'[k].errorMessage]
            /\ results'[k].errorMessage # NoMessage
            /\ resultsSet'
            /\ pending'[results[k].id] = 0
C6_State ==
    /\ \A k \in DOMAIN results :
          results[k].status = "error" =>
              pending[results[k].id] = 0 /\ started[results[k].id] = 1
    /\ ( /\ \E k \in DOMAIN results : results[k].status = "error"
         /\ Settled /\ ~isPaused
         /\ Len(QueuedItems(results)) > 0 )
       => CurrentlyLoading(results) = MAX_CONCURRENT_UPLOADS
C6_FailureIsLocal == []C6_State /\ [][C6_Step]_vars

\* item 1 failed while item 2 was loading, and the item that waited was
\* dispatched after it
C6_Witness ==
    /\ Len(results) >= MAX_CONCURRENT_UPLOADS + 1
    /\ results[1].status = "error" /\ results[1].errorMessage # NoMessage
    /\ results[2].status = "loading"
    /\ results[3].status = "loading"
    /\ pending[1] = 0 /\ pending[3] = 1
    /\ Settled

\* C7: a step in which an item becomes 'error' leaves requestCount, isPaused
\* and pauseCountdown unchanged, and isPaused turns true only in a step in
\* which an item becomes 'done'.
C7_Step ==
    /\ (\E k \in DOMAIN results : Becomes(k, "error")) =>
          /\ requestCount' = requestCount
          /\ isPaused' = isPaused
          /\ pauseCountdown' = pauseCountdown
    /\ (~isPaused /\ isPaused') =>
          \E k \in DOMAIN results : Becomes(k, "done")
C7_FailuresNotCounted == [][C7_Step]_vars

\* PAUSE_AFTER_REQUESTS extractions have returned over the session, the last
\* of them failed, and no pause was entered
C7_Witness ==
    /\ Cardinality({k \in DOMAIN results : results[k].status = "error"}) = 1
    /\ Cardinality({k \in DOMAIN results : results[k].status = "done"}) >= 1
    /\ requestCount = PAUSE_AFTER_REQUESTS - 1
    /\ AllFinished
    /\ Settled /\ ~isPaused /\ pauseCountdown = 0

\* ---- handleDeleteItem called for any row ----
\* The rendering offers the delete button on finished rows only (ClickDelete).
\* handleDeleteItem itself tests nothing: here it is called for any row of the
\* collection, also one whose extraction is outstanding.
DeleteAnyRow ==
    \E k \in DOMAIN rendered.results :
        /\ rendered.results[k].id <= MaxDeletableId
        /\ HandleDeleteItem(rendered.results[k].id)

NextAnyDelete ==
    \/ FileInputChange
    \/ HandleDrop
    \/ DeleteAnyRow
    \/ ClickExport
    \/ ResponseArrives
    \/ CallThrows
    \/ PauseTick
    \/ Render
    \/ RunEffects

SpecAnyDelete == Init /\ [][NextAnyDelete]_vars

\* the collection without the row of id `id`, the other rows in their order
Without(rs, id) ==
    LET other(r) == r.id # id IN SelectSeq(rs, other)

\* C8: a step that takes a row out of the collection leaves the other rows as
\* they were, in their order, and the row is in neither the collection nor
\* the rows to export after it; an id that was handed out and is not in the
\* collection is not in it after the step either; and a step in which the
\* call made for such an id returns leaves the collection as it was.
C8_Step ==
    \A id \in 1..(nextId - 1) :
        /\ (id \in IdsOf(results) /\ id \notin IdsOf(results')) =>
              /\ results' = Without(results, id)
              /\ id \notin IdsOf(DataToExport(results'))
        /\ id \notin IdsOf(results) =>
              /\ id \notin IdsOf(results')
              /\ pending'[id] < pending[id] => results' = results
C8_DeleteIsFinal == [][C8_Step]_vars

\* an item was deleted while its extraction is outstanding; other items are
\* in the collection
C8_Witness ==
    \E id \in 1..(nextId - 1) :
        /\ id \notin IdsOf(results)
        /\ pending[id] > 0
        /\ Len(results) > 1
        /\ Settled

\* C9 as stated: every item with status 'done' carries a record of the
\* extraction schema; a response that parses to something else makes the item
\* 'error'.
C9_DoneHasRecord ==
    \A k \in DOMAIN results :
        results[k].status = "done" => results[k].data.kind = "object"

\* C10 as stated: every item with status 'error' carries a non-empty error
\* message.
C10_ErrorHasMessage ==
    \A k \in DOMAIN results :
        results[k].status = "error" => results[k].errorMessage \notin {NoMessage, ""}

\* no row of the collection the export button was rendered with is 'done'
\* with data
NothingExportable ==
    \A k \in DOMAIN rendered.results :
        ~(rendered.results[k].status = "done" /\ Truthy(rendered.results[k].data))

\* C11: a step that shows or writes something (an export) while no row is
\* 'done' with data shows the notice, writes no file, and leaves the
\* collection and the controller state as they were.
C11_Step ==
    (output'.kind # "none" /\ NothingExportable) =>
        /\ output' = NothingToExportNotice
        /\ output'.kind # "file"
        /\ UNCHANGED <<results, isProcessing, isPaused, pauseCountdown, rendered,
                       resultsSet, requestCount, pending, started, timerArmed,
                       dirtyResults, dirtyPaused, dirtyCountdown, nextId>>
C11_EmptyExportIsNotice == [][C11_Step]_vars

\* the notice was shown for a collection that is not empty
C11_Witness ==
    /\ output = NothingToExportNotice
    /\ Len(rendered.results) > 0
    /\ NothingExportable

IsDone(r) == r.status = "done"

\* C12 as stated: a step that writes the file writes one row per item with
\* status 'done', in collection order, with the columns file name, product
\* name, reference, lot, expiration in this order; and an export with an item
\* 'done' writes the file.
C12_Step ==
    LET done == SelectSeq(rendered.results, IsDone) IN
    /\ (output'.kind # "none" /\ Len(done) > 0) => output'.kind = "file"
    /\ output'.kind = "file" =>
          /\ Len(output'.rows) = Len(done)
          /\ \A k \in 1..Len(done) :
                output'.rows[k] =
                    << <<"Nome do Arquivo", done[k].fileName>>,
                       <<"Nome do Produto", done[k].data.productName>>,
                       <<"Referência (REF)", done[k].data.refNumber>>,
                       <<"Número do Lote (LOT)", done[k].data.lotNumber>>,
                       <<"Data de Validade", done[k].data.expirationDate>> >>
C12_OneRowPerDone == [][C12_Step]_vars

\* ---------------------------------------------------------------------------
\* the controller has nothing to do: no item waits or is being extracted, no
\* pause runs and isProcessing has been cleared
Idle ==
    /\ ~IsStillProcessing(results)
    /\ ~isPaused
    /\ ~isProcessing

\* C13: when no item is 'queued' or 'loading', isProcessing eventually becomes
\* false, also when the last completion started a pause (the pause runs out
\* first); and from the idle state every step either adds files, deletes an
\* item, or leaves the collection, the flags, the countdown, the request count,
\* the timer and the outstanding extractions as they are, and no step from it
\* starts an extraction.
C13_Step ==
    Idle =>
        /\ started' = started
        /\ \/ nextId' > nextId /\ Len(results') > Len(results)
           \/ Len(results') < Len(results)
           \/ UNCHANGED <<results, isProcessing, isPaused, pauseCountdown,
                          requestCount, pending, started, timerArmed, nextId>>
C13_ControllerIdles ==
    /\ (~IsStillProcessing(results)) ~> ~isProcessing
    /\ [][C13_Step]_vars

\* the controller idles after a run whose last completion started a pause
C13_Witness ==
    /\ Idle /\ Settled
    /\ requestCount = PAUSE_AFTER_REQUESTS
    /\ pauseTicks = PAUSE_DURATION_SECONDS
    /\ Len(results) > 0
    /\ \A k \in DOMAIN results : results[k].status = "done"

\* ---------------------------------------------------------------------------
\* the ids of the items the step moves from 'queued' to 'loading'
MovedToLoading ==
    {results'[k].id : k \in
        {k \in DOMAIN results' :
            /\ results'[k].status = "loading"
            /\ \E j \in DOMAIN results :
                  results[j].id = results'[k].id /\ results[j].status = "queued"}}

\* the step runs the dispatch effect (a dependency of it changed in the last
\* commit and the step runs the waiting effects), rendered not paused
DispatchEffectRuns ==
    /\ dirtyResults \/ dirtyPaused
    /\ ~dirtyResults' /\ ~dirtyPaused' /\ ~dirtyCountdown'
    /\ ~rendered.isPaused

\* min(a, b)
Min(a, b) == IF a < b THEN a ELSE b

\* C14: a run of the dispatch effect, when not paused, moves exactly
\* min(number of queued items, MAX_CONCURRENT_UPLOADS - number of loading
\* items) items from 'queued' to 'loading', the numbers being those of the
\* collection the effect runs on; no other step moves any; the step starts
\* exactly one extraction for each item it moves and none else; and in every
\* settled state that is not paused and has a queued item exactly
\* MAX_CONCURRENT_UPLOADS items are loading.
C14_Step ==
    LET moved == MovedToLoading IN
    /\ DispatchEffectRuns =>
          Cardinality(moved) =
              Min(Len(QueuedItems(rendered.results)),
                  MAX_CONCURRENT_UPLOADS - CurrentlyLoading(rendered.results))
    /\ ~DispatchEffectRuns => moved = {}
    /\ \A i \in Ids :
          /\ started'[i] = started[i] + (IF i \in moved THEN 1 ELSE 0)
          /\ i \in moved => pending'[i] = pending[i] + 1
C14_State ==
    (Settled /\ ~isPaused /\ Len(QueuedItems(results)) > 0) =>
        CurrentlyLoading(results) = MAX_CONCURRENT_UPLOADS
C14_DispatchFillsSlots == [][C14_Step]_vars /\ []C14_State

\* more items were queued than slots were free: the effect has filled the
\* slots and an item is still waiting
C14_Witness ==
    /\ Settled /\ ~isPaused
    /\ Len(QueuedItems(results)) > 0
    /\ CurrentlyLoading(results) = MAX_CONCURRENT_UPLOADS
    /\ StartedCount = MAX_CONCURRENT_UPLOADS
    /\ \A k \in DOMAIN results : pending[results[k].id] = 1 <=> results[k].status = "loading"

\* ---------------------------------------------------------------------------
\* the ids with an extraction call outstanding
InFlight == {i \in Ids : pending[i] > 0}

\* C15: the outstanding extraction calls and the 'loading' items correspond
\* one to one (an id has one call outstanding if an item with that id is
\* 'loading' and none otherwise, and no two items share an id); no id is ever
\* dispatched twice; and at most MAX_CONCURRENT_UPLOADS calls are outstanding.
C15_OneCallPerLoadingItem ==
    /\ \A j, k \in DOMAIN results : results[j].id = results[k].id => j = k
    /\ \A i \in Ids :
          pending[i] = IF \E k \in DOMAIN results :
                             results[k].id = i /\ results[k].status = "loading"
                          THEN 1 ELSE 0
    /\ \A i \in Ids : started[i] <= 1
    /\ Cardinality(InFlight) <= MAX_CONCURRENT_UPLOADS

\* two calls are outstanding and an item that was extracted has been deleted
C15_Witness ==
    /\ Cardinality(InFlight) = MAX_CONCURRENT_UPLOADS
    /\ CurrentlyLoading(results) = MAX_CONCURRENT_UPLOADS
    /\ \E i \in Ids : started[i] = 1 /\ i < nextId /\ i \notin IdsOf(results)

\* ---------------------------------------------------------------------------
\* the status changes a single step may make to an item
ForwardMoves ==
    { <<"queued", "loading">>, <<"loading", "done">>, <<"loading", "error">> }

\* C16: in every step an item that stays in the collection keeps its status
\* or moves 'queued' -> 'loading', 'loading' -> 'done' or 'loading' ->
\* 'error'; an item that enters the collection enters as 'queued'. So no item
\* becomes 'done' or 'error' from any status but 'loading', and a 'done' or
\* 'error' item keeps its status for as long as it is in the collection.
C16_Step ==
    /\ \A j \in DOMAIN results : \A k \in DOMAIN results' :
          results'[k].id = results[j].id =>
              \/ results'[k].status = results[j].status
              \/ <<results[j].status, results'[k].status>> \in ForwardMoves
    /\ \A k \in DOMAIN results' :
          results'[k].id \notin IdsOf(results) => results'[k].status = "queued"
C16_StatusMovesForward == [][C16_Step]_vars

\* an item that succeeded, one that failed and one that was queued behind
\* them and is loading stand in the collection together
C16_Witness ==
    /\ \E k \in DOMAIN results : results[k].status = "done"
    /\ \E k \in DOMAIN results : results[k].status = "error"
    /\ \E k \in DOMAIN results : results[k].status = "loading"
    /\ \A k \in DOMAIN results : started[results[k].id] = 1

\* ---------------------------------------------------------------------------
\* C17: when a step moves an item from 'queued' to 'loading', every item that
\* stood before it in the collection with status 'queued' is moved by the same
\* step: none of them is still 'queued' after it.
C17_Step ==
    \A p \in DOMAIN results :
        (results[p].id \in MovedToLoading) =>
            \A j \in 1..(p - 1) :
                results[j].status = "queued" =>
                    \A k \in DOMAIN results' :
                        results'[k].id = results[j].id =>
                            results'[k].status # "queued"
C17_FirstInFirstOut == [][C17_Step]_vars

\* the items uploaded first were dispatched (the first is finished, the next
\* is being extracted) while the item behind them waits
C17_Witness ==
    /\ Len(results) = MAX_CONCURRENT_UPLOADS + 1
    /\ results[1].status \in {"done", "error"}
    /\ \A k \in 2..MAX_CONCURRENT_UPLOADS : results[k].status = "loading"
    /\ results[MAX_CONCURRENT_UPLOADS + 1].status = "queued"
    /\ started[results[MAX_CONCURRENT_UPLOADS + 1].id] = 0

\* ---------------------------------------------------------------------------
\* C18 as stated: a step taken while isProcessing or isPaused is true (the
\* page shows the intake disabled) adds no item to the collection, whether
\* the files come from the file input or from a drop on the drop zone.
C18_Step ==
    (rendered.isProcessing \/ rendered.isPaused) =>
        /\ IdsOf(results') \subseteq IdsOf(results)
        /\ nextId' = nextId
C18_IntakeDisabled == [][C18_Step]_vars

\* ---------------------------------------------------------------------------
\* C19 as stated: in every reachable state with a 'queued' or 'loading' item
\* isProcessing is true, in the state and in what is rendered; and every step
\* in which the export runs (it shows the notice or writes the file) starts
\* from a page on which every item is 'done' or 'error', with neither
\* isProcessing nor isPaused set.
C19_State ==
    /\ IsStillProcessing(results) => isProcessing
    /\ IsStillProcessing(rendered.results) => rendered.isProcessing
C19_Step ==
    output'.kind # "none" =>
        /\ ~rendered.isProcessing /\ ~rendered.isPaused
        /\ \A k \in DOMAIN rendered.results :
              rendered.results[k].status \in {"done", "error"}
C19_ExportOnFinishedOnly == []C19_State /\ [][C19_Step]_vars

\* ---------------------------------------------------------------------------
\* C20: while isPaused is true no step brings the request count to a multiple
\* of PAUSE_AFTER_REQUESTS (the pause is not triggered again), no step raises
\* the countdown (it is not set back to PAUSE_DURATION_SECONDS), and the step
\* that ends the pause is taken after exactly PAUSE_DURATION_SECONDS ticks of
\* the timer since the pause began.
C20_Step ==
    /\ isPaused =>
          /\ ~(requestCount' # requestCount /\ ShouldPause(requestCount'))
          /\ pauseCountdown' <= pauseCountdown
    /\ (isPaused /\ ~isPaused') => pauseTicks = PAUSE_DURATION_SECONDS
C20_PauseRunsOnce == [][C20_Step]_vars

\* an extraction completed during the pause (the count stands one above the
\* count that began it) and the last tick of the pause has run
C20_Witness ==
    /\ isPaused
    /\ requestCount = PAUSE_AFTER_REQUESTS + 1
    /\ pauseCountdown = 0
    /\ pauseTicks = PAUSE_DURATION_SECONDS
====
